---- MODULE Spec2Model ----
(***************************************************************************)
(* Model of the router's functionReferenceResolver (package router):       *)
(* resolve / resolveByName / resolveByFunctionWeights / delete over the    *)
(* expiring reference cache and the per-namespace function informers.      *)
(*                                                                         *)
(* In Spec and WSpec the resolver's operations are atomic actions issued   *)
(* one after another by a caller; between two calls the environment may    *)
(* change the function store, let time pass, and purge expired cache       *)
(* entries. ASpec adds callers that change the results they were returned. *)
(* In CSpec and TSpec several callers run resolve at the same time, step   *)
(* by step.                                                                *)
(* cache.Cache (Get/Set/Delete) is a package of its own; its operators     *)
(* here follow the contract of the expiring cache.                         *)
(***************************************************************************)
EXTENDS Integers, Sequences, FiniteSets, TLC

(* ------------------------------ bounds --------------------------------- *)

\* function objects in the store carry a generation 1..MaxGen (0 = absent)
MaxGen == 1
\* the weights declared in WSpec range over -1..MaxWeight
MaxWeight == 2
\* the number of callers that resolve concurrently in CSpec
NumCallers == 2
\* the watches of a subscription are numbered 1..MaxWatch in KSpec
MaxWatch == 3

(* --------------------------- program constants ------------------------- *)

\* cache.MakeCache(time.Minute, 0): the entry time-to-live, in clock ticks
\* of 30 seconds
TTL == 2

resolveResultSingleFunction == 0
resolveResultMultipleFunctions == 1

\* "retries := 60" in restartWatch
retries == 60

FunctionReferenceTypeFunctionName == "name"
FunctionReferenceTypeFunctionWeights == "function-weights"

(* ------------------------------ universe ------------------------------- *)

\* the namespaces the resolver was constructed with an informer for
\* (triggers also live in namespace "other", which has none)
InformerNamespaces == {"default"}
ResourceVersions == {"v1", "v2"}
\* the function names an informer store can hold
FnNames == {"fA", "fB", "fC"}
\* the functions the triggers of Spec refer to
ReferencedFns == {"fA", "fB"}

\* the FunctionWeights maps (name -> weight) declared by the triggers
EmptyWeights == <<>>
Weights7030 == ("fA" :> 70) @@ ("fB" :> 30)

ByName(f) ==
  [type |-> FunctionReferenceTypeFunctionName, name |-> f,
   functionWeights |-> EmptyWeights]
ByWeights(m) ==
  [type |-> FunctionReferenceTypeFunctionWeights, name |-> "",
   functionWeights |-> m]
\* a reference of a type the resolver does not know
ByUrl == [type |-> "url", name |-> "", functionWeights |-> EmptyWeights]

\* the keys of the triggers that are resolved: two versions of default/t1,
\* and a trigger in a namespace without informer
Key(namespace, triggerName, triggerRV) ==
  [namespace |-> namespace, triggerName |-> triggerName,
   triggerResourceVersion |-> triggerRV]
namespacedTriggerReference ==
  {Key("default", "t1", v) : v \in ResourceVersions}
  \cup {Key("other", "t1", "v1")}

HTTPTrigger(namespace, name, resourceVersion, ref) ==
  [namespace |-> namespace, name |-> name,
   resourceVersion |-> resourceVersion, ref |-> ref]

\* the trigger objects handed to resolve
HTTPTriggers ==
  {HTTPTrigger("default", "t1", "v1", r) :
     r \in {ByName("fA"), ByWeights(Weights7030), ByUrl}}
  \cup {HTTPTrigger("default", "t1", "v2", r) : r \in {ByName("fA")}}
  \cup {HTTPTrigger("other", "t1", "v1", r) :
          r \in {ByName("fA"), ByWeights(Weights7030), ByWeights(EmptyWeights)}}

(* ------------------------------- values -------------------------------- *)

\* a function object as held by the informer's store
Function(name, gen) == [name |-> name, gen |-> gen]

\* the nil *resolveResult
NilResult ==
  [resolveResultType |-> -1, functionMap |-> <<>>,
   functionWtDistributionList |-> <<>>]

resolveResult(type, functionMap, list) ==
  [resolveResultType |-> type, functionMap |-> functionMap,
   functionWtDistributionList |-> list]

functionWeightDistribution(name, weight, sumPrefix) ==
  [name |-> name, weight |-> weight, sumPrefix |-> sumPrefix]

\* errors: the nil error, and the three fmt.Errorf errors of the resolver
NilErr == [kind |-> "nil", arg |-> <<>>]
ErrInformerNotFound(namespace) ==
  [kind |-> "informer for namespace not found", arg |-> <<namespace>>]
ErrFunctionDoesNotExist(namespace, name) ==
  [kind |-> "function does not exist", arg |-> <<namespace, name>>]
ErrUnrecognizedType(type) ==
  [kind |-> "unrecognized function reference type", arg |-> <<type>>]

\* a cache slot: absent, or a value with the time passed since it was set
\* (in ticks, not counted beyond TTL: the entry is expired from there on)
NoEntry == [present |-> FALSE, value |-> NilResult, age |-> 0]
Entry(value, age) == [present |-> TRUE, value |-> value, age |-> age]

\* all orders in which a map with key set S can be traversed
Orders(S) ==
  {o \in [1..Cardinality(S) -> S] : \A i, j \in DOMAIN o : i # j => o[i] # o[j]}

(* ------------------------------- state --------------------------------- *)

VARIABLES
  store,    \* store[ns][f]: generation of function f in the informer store of ns, 0 if absent
  cache,    \* refCache: namespacedTriggerReference -> cache slot
  last,     \* the resolver call that has just returned, with what it returned
  hist,     \* history: per key, what the latest resolver call on it did
  calls,    \* the resolve calls in progress, per concurrent caller (CSpec)
  watches,  \* KubeWatcher.watches: trigger UID -> copy of its subscription
  subs,     \* the watchSubscription made for each trigger, with its dispatch loop
  ctl       \* the addWatch / removeWatch call of the controller in progress

\* the variables of the resolver and those of the kubewatcher
rvars == <<store, cache, last, hist, calls>>
kvars == <<watches, subs, ctl>>
vars == <<store, cache, last, hist, calls, watches, subs, ctl>>

(* --------------------- cache.Cache (from its contract) ------------------ *)

\* an entry whose time-to-live has elapsed
IsExpired(e) == e.present /\ e.age >= TTL

\* Get(key): the value and a nil error on a live entry, an error otherwise
\* (an expired entry that has not been purged yet is a miss)
cacheGet(c, key) ==
  IF c[key].present /\ ~IsExpired(c[key])
    THEN [value |-> c[key].value, found |-> TRUE]
    ELSE [value |-> NilResult, found |-> FALSE]

\* Set(key, value): replaces or inserts; the TTL counts from this set
cacheSet(c, key, value) == [c EXCEPT ![key] = Entry(value, 0)]

\* Delete(key): removes the entry of exactly that key if present, nil error
cacheDelete(c, key) == [c EXCEPT ![key] = NoEntry]

\* Copy(): a map of its own from the keys of the live entries to their values
cacheCopy(c) ==
  [k \in {k1 \in DOMAIN c : c[k1].present /\ ~IsExpired(c[k1])} |-> c[k].value]

(* ------------------------ the function informers ------------------------ *)

\* informer.GetStore().Get(&Function{Namespace, Name}): (obj, isExist, err);
\* the store's key function cannot fail on a Function object, so err is nil
storeGet(st, namespace, name) ==
  IF st[namespace][name] = 0
    THEN [obj |-> Function(name, 0), isExist |-> FALSE, err |-> NilErr]
    ELSE [obj |-> Function(name, st[namespace][name]), isExist |-> TRUE,
          err |-> NilErr]

getInformerByNamespace(namespace) ==
  IF namespace \in InformerNamespaces
    THEN [ok |-> TRUE, err |-> NilErr]
    ELSE [ok |-> FALSE, err |-> ErrInformerNotFound(namespace)]

(* ----------------------------- the resolver ----------------------------- *)

\* what a resolution returns: (*resolveResult, error), and the number of
\* store lookups it made
Returned(rr, err, lookups) == [rr |-> rr, err |-> err, lookups |-> lookups]

\* faulty variant: the by-name result is tagged as a multiple-functions one
resolveByName_taggedMultiple(st, namespace, name) ==
  LET informer == getInformerByNamespace(namespace) IN
  IF ~informer.ok THEN Returned(NilResult, informer.err, 0)
  ELSE
    LET got == storeGet(st, namespace, name) IN
    IF got.err # NilErr THEN Returned(NilResult, got.err, 1)
    ELSE IF ~got.isExist
      THEN Returned(NilResult, ErrFunctionDoesNotExist(namespace, name), 1)
    ELSE
      LET f == got.obj
          functionMap == (f.name :> f)
      IN Returned(resolveResult(resolveResultMultipleFunctions, functionMap, <<>>),
                  NilErr, 1)

resolveByName(st, namespace, name) ==
  LET informer == getInformerByNamespace(namespace) IN
  IF ~informer.ok THEN Returned(NilResult, informer.err, 0)
  ELSE
    LET got == storeGet(st, namespace, name) IN
    IF got.err # NilErr THEN Returned(NilResult, got.err, 1)
    ELSE IF ~got.isExist
      THEN Returned(NilResult, ErrFunctionDoesNotExist(namespace, name), 1)
    ELSE
      LET f == got.obj
          functionMap == (f.name :> f)
      IN Returned(resolveResult(resolveResultSingleFunction, functionMap, <<>>),
                  NilErr, 1)

\* faulty variant: the running sum is not carried over
addWeight_noCarry(sumPrefix, functionWeight) == functionWeight

\* faulty variant: a negative weight is counted as zero
addWeight_clampNegative(sumPrefix, functionWeight) ==
  sumPrefix + (IF functionWeight < 0 THEN 0 ELSE functionWeight)

\* faulty variant: a zero weight is counted as one
addWeight_atLeastOne(sumPrefix, functionWeight) ==
  sumPrefix + (IF functionWeight = 0 THEN 1 ELSE functionWeight)

\* sumPrefix = sumPrefix + functionWeight
addWeight(sumPrefix, functionWeight) == sumPrefix + functionWeight

\* faulty variant: the isExist result of the lookup is ignored
lookupSucceeded_ignoreExist(got) == got.err = NilErr

\* the outcome of the lookup of one function inside the loop: does the loop
\* go on to append an entry for it
lookupSucceeded(got) == got.err = NilErr /\ got.isExist

\* one iteration of "for functionName, functionWeight := range fr.FunctionWeights",
\* the i-th of the traversal order the runtime picked for the map
RECURSIVE weightsLoop(_, _, _, _, _, _, _, _)
weightsLoop(st, namespace, fw, order, i, functionMap, fnWtDistrList, sumPrefix) ==
  IF i > Len(order)
    THEN Returned(resolveResult(resolveResultMultipleFunctions, functionMap,
                                fnWtDistrList), NilErr, i - 1)
  ELSE
    LET functionName == order[i]
        functionWeight == fw[functionName]
        informer == getInformerByNamespace(namespace)
    IN
    IF ~informer.ok THEN Returned(NilResult, informer.err, i - 1)
    ELSE
      LET got == storeGet(st, namespace, functionName) IN
      IF ~lookupSucceeded(got)
        THEN IF got.err # NilErr
               THEN Returned(NilResult, got.err, i)
               ELSE Returned(NilResult,
                             ErrFunctionDoesNotExist(namespace, functionName), i)
      ELSE
        LET f == got.obj
            sum == addWeight(sumPrefix, functionWeight)
        IN weightsLoop(st, namespace, fw, order, i + 1,
                       (f.name :> f) @@ functionMap,
                       Append(fnWtDistrList,
                              functionWeightDistribution(functionName,
                                                         functionWeight, sum)),
                       sum)

\* faulty variant: the function objects found are not put into functionMap
resolveByFunctionWeights_noMap(st, namespace, fr, order) ==
  LET r == weightsLoop(st, namespace, fr.functionWeights, order, 1, <<>>, <<>>, 0)
  IN Returned([r.rr EXCEPT !.functionMap = <<>>], r.err, r.lookups)

\* faulty variant: the range loop is left after its first iteration
loopEnded_afterFirst(order, i) == i > 1

\* the range loop over fr.FunctionWeights has no i-th iteration to run
loopEnded(order, i) == i > Len(order)

\* order: the order in which the range statement visits fr.FunctionWeights
resolveByFunctionWeights(st, namespace, fr, order) ==
  weightsLoop(st, namespace, fr.functionWeights, order, 1, <<>>, <<>>, 0)

\* faulty variant: the default case of the switch resolves by weights
resolveOnMiss_defaultWeights(st, namespace, fr, order) ==
  IF fr.type = FunctionReferenceTypeFunctionName
    THEN resolveByName(st, namespace, fr.name)
  ELSE resolveByFunctionWeights(st, namespace, fr, order)

\* the cache-miss part of resolve: the switch on the reference type
resolveOnMiss(st, namespace, fr, order) ==
  IF fr.type = FunctionReferenceTypeFunctionName
    THEN resolveByName(st, namespace, fr.name)
  ELSE IF fr.type = FunctionReferenceTypeFunctionWeights
    THEN resolveByFunctionWeights(st, namespace, fr, order)
  ELSE Returned(NilResult, ErrUnrecognizedType(fr.type), 0)

\* faulty variant: the key is built without the trigger's resource version
KeyOf_noVersion(trigger) ==
  [namespace |-> trigger.namespace, triggerName |-> trigger.name,
   triggerResourceVersion |-> "v1"]

\* the key resolve builds from the trigger
KeyOf(trigger) ==
  [namespace |-> trigger.namespace, triggerName |-> trigger.name,
   triggerResourceVersion |-> trigger.resourceVersion]

\* faulty variant: the result of the cache lookup is never used
isCacheHit_never(got) == FALSE

\* faulty variant: whatever Get returned is taken for a hit
isCacheHit_always(got) == TRUE

\* "if err == nil { return &result, nil }" after refCache.Get
isCacheHit(got) == got.found

\* faulty variant: the cache is set whatever the switch returned
cacheAfterMiss_always(c, nfr, r) == cacheSet(c, nfr, r.rr)

\* faulty variant: an entry the key already has is left as it is
cacheAfterMiss_ifAbsent(c, nfr, r) ==
  IF r.err = NilErr /\ ~c[nfr].present THEN cacheSet(c, nfr, r.rr) ELSE c

\* the cache after the miss path: set only when the switch returned no error
cacheAfterMiss(c, nfr, r) ==
  IF r.err = NilErr THEN cacheSet(c, nfr, r.rr) ELSE c

\* faulty variant: delete builds its key in the namespace "default"
DeleteKey_defaultNamespace(namespace, triggerName, triggerRV) ==
  [namespace |-> "default", triggerName |-> triggerName,
   triggerResourceVersion |-> triggerRV]

\* faulty variant: delete always builds the key of the first version
DeleteKey_firstVersion(namespace, triggerName, triggerRV) ==
  [namespace |-> namespace, triggerName |-> triggerName,
   triggerResourceVersion |-> "v1"]

\* faulty variant: delete builds the key of the other version
DeleteKey_otherVersion(namespace, triggerName, triggerRV) ==
  [namespace |-> namespace, triggerName |-> triggerName,
   triggerResourceVersion |-> IF triggerRV = "v1" THEN "v2" ELSE "v1"]

\* the key delete builds from its arguments
DeleteKey(namespace, triggerName, triggerRV) ==
  [namespace |-> namespace, triggerName |-> triggerName,
   triggerResourceVersion |-> triggerRV]

(* ------------------------------- actions -------------------------------- *)

NoKey == [namespace |-> "", triggerName |-> "", triggerResourceVersion |-> ""]
NoRef == [type |-> "", name |-> "", functionWeights |-> EmptyWeights]

\* history of a key: "ok": its latest call was a successful resolve that
\* returned value from an entry set age ticks ago, whose TTL has not elapsed;
\* "failed": its latest call was a resolve that returned an error, of a
\* trigger with reference ref; "deleted": its latest call was a delete;
\* "never": none of these
Hist(state, value, age, ref) ==
  [state |-> state, value |-> value, age |-> age, ref |-> ref]
NoHist == Hist("never", NilResult, 0, NoRef)

\* what the history keeps of the reference of a failed resolve: by-name
\* references as they are, the others by their type
failedRef(ref) ==
  IF ref.type = FunctionReferenceTypeFunctionName THEN ref
  ELSE [NoRef EXCEPT !.type = ref.type]

\* no call has returned that the caller has not consumed yet
NoCall ==
  [op |-> "none", nfr |-> NoKey, ref |-> NoRef, res |-> NilResult,
   err |-> NilErr, hit |-> FALSE, lookups |-> 0, prev |-> NoHist,
   cacheBefore |-> <<>>, snapshot |-> <<>>]

(* --------------------------- kubewatcher: state ------------------------- *)

\* the UIDs of the KubernetesWatchTriggers, and the types a trigger's
\* function reference may have
UIDs == {"u1", "u2"}
FunctionReferenceTypes ==
  {FunctionReferenceTypeFunctionName, FunctionReferenceTypeFunctionWeights}

\* the watch events a result channel delivers: an object event whose
\* resource version can be read (rv), one of which it cannot, or watch.Error
ResourceVersionsSeen == {"1", "2"}
WatchEvent(type, rv, readable) == [type |-> type, rv |-> rv, readable |-> readable]
NoEvent == WatchEvent("", "", FALSE)
ErrorEvent == WatchEvent("ERROR", "", FALSE)
WatchEvents ==
  {WatchEvent("ADDED", rv, TRUE) : rv \in ResourceVersionsSeen}
  \cup {WatchEvent("ADDED", "", FALSE), ErrorEvent}

\* what is kept of a call of restartWatch: why it was made, the
\* lastResourceVersion when the loop took the close or the event that led to
\* it, the resource version given to createKubernetesWatch, the attempts
\* made, the failures the API had in store, the error returned, and
\* kubeWatch before the call
Restart(cause, rvBefore, rvUsed, attempts, fails, err, watchBefore) ==
  [cause |-> cause, rvBefore |-> rvBefore, rvUsed |-> rvUsed,
   attempts |-> attempts, fails |-> fails, err |-> err,
   watchBefore |-> watchBefore]
NoRestart == Restart("", "", "", 0, 0, FALSE, 0)

\* a watchSubscription and its eventDispatchLoop. refType is the type of
\* watch.Spec.FunctionReference; kubeWatch is the number of
\* the watch it holds (0: nil) and chan the state of that watch's result
\* channel; stopped is the int32 behind the pointer; pc is where the loop
\* stands ("none": no goroutine; "top": at the loop condition; "recv": at the
\* receive; "closed": the receive returned !more; "event": it returned ev;
\* "restart": about to call restartWatch; "exited"; "panicked").
\* Kept for the record: restart; expected, the resource version of the last
\* event received whose version can be read, empty after an Error event;
\* published, the event published in this iteration; removed, removeWatch has returned;
\* publishedAfterRemove
NoSub ==
  [refType |-> "", kubeWatch |-> 0, chan |-> "closed",
   lastResourceVersion |-> "", stopped |-> 0, pc |-> "none", ev |-> NoEvent, restart |-> NoRestart,
   expected |-> "", published |-> NoEvent, removed |-> FALSE,
   publishedAfterRemove |-> FALSE]

\* an entry of kw.watches: the copy of the subscription struct made by
\* "kw.watches[w.UID] = *ws" (its stopped pointer is that of the subscription)
NoWatch == [present |-> FALSE, kubeWatch |-> 0, lastResourceVersion |-> ""]
WatchCopy(ws) ==
  [present |-> TRUE, kubeWatch |-> ws.kubeWatch,
   lastResourceVersion |-> ws.lastResourceVersion]

\* the call of the controller: pc "idle", "storing" (addWatch has made the
\* subscription and is about to store its copy), "stopping" (removeWatch has
\* set the stopped flag and is about to stop the watch of its copy, ws),
\* "returned" (with err)
Ctl(pc, op, uid, ws, err, restart) ==
  [pc |-> pc, op |-> op, uid |-> uid, ws |-> ws, err |-> err,
   restart |-> restart]
IdleCtl == Ctl("idle", "", "", NoWatch, "", NoRestart)

\* MakeKubeWatcher: an empty watches map
MakeKubeWatcher ==
  /\ watches = [uid \in UIDs |-> NoWatch]
  /\ subs = [uid \in UIDs |-> NoSub]
  /\ ctl = IdleCtl

Callers == 1..NumCallers

\* a caller's call: pc is where it stands ("idle": no call; "byName": about
\* to look its function up; "byWeights": about to run iteration i of the
\* range loop; "set": about to call refCache.Set; "done": returned); rr, err
\* are the result under construction and then the values returned;
\* functionMap, list and sumPrefix of the loop are rr's fields and sumPrefix.
\* Kept for the record: looked, the store lookups made so far (name, found);
\* built, the ticks since the first lookup behind rr (TTL + 1: more than
\* TTL); age, the age of the entry a hit returned; didSet; with, the callers
\* whose present call had missed and was in progress when this one missed
IdleCall ==
  [pc |-> "idle", nfr |-> NoKey, ref |-> NoRef, order |-> <<>>, i |-> 0,
   rr |-> NilResult, sumPrefix |-> 0, err |-> NilErr, hit |-> FALSE,
   looked |-> <<>>, built |-> 0, age |-> 0, didSet |-> FALSE, with |-> {}]
\* none of the callers has a call in progress
NoCalls == [p \in Callers |-> IdleCall]

Init ==
  /\ store \in [InformerNamespaces -> [FnNames -> 0..1]]
  /\ \A ns \in InformerNamespaces : \A f \in FnNames \ ReferencedFns :
       store[ns][f] = 0
  /\ cache = [k \in namespacedTriggerReference |-> NoEntry]
  /\ last = NoCall
  /\ hist = [k \in namespacedTriggerReference |-> NoHist]
  /\ calls = NoCalls
  /\ MakeKubeWatcher

\* frr.resolve(trigger), with the order the map range takes on a miss.
\* The history is kept under the key of the trigger as the caller sees it.
Resolve(trigger, order) ==
  /\ last.op = "none"
  /\ LET nfr == KeyOf(trigger)
         got == cacheGet(cache, nfr)
         key == Key(trigger.namespace, trigger.name, trigger.resourceVersion)
     IN
     IF isCacheHit(got)
       THEN /\ last' = [op |-> "resolve", nfr |-> key, ref |-> trigger.ref,
                        res |-> got.value, err |-> NilErr, hit |-> TRUE,
                        lookups |-> 0, prev |-> hist[key],
                        cacheBefore |-> cache, snapshot |-> <<>>]
            /\ hist' = [hist EXCEPT
                          ![key] = Hist("ok", got.value, cache[nfr].age, NoRef)]
            /\ UNCHANGED cache
       ELSE LET r == resolveOnMiss(store, nfr.namespace, trigger.ref, order) IN
            /\ last' = [op |-> "resolve", nfr |-> key, ref |-> trigger.ref,
                        res |-> r.rr, err |-> r.err, hit |-> FALSE,
                        lookups |-> r.lookups, prev |-> hist[key],
                        cacheBefore |-> cache, snapshot |-> <<>>]
            /\ cache' = cacheAfterMiss(cache, nfr, r)
            /\ hist' = [hist EXCEPT
                          ![key] = IF r.err = NilErr
                                     THEN Hist("ok", r.rr, 0, NoRef)
                                     ELSE Hist("failed", NilResult, 0,
                                               failedRef(trigger.ref))]
  /\ UNCHANGED <<store, calls, kvars>>

\* frr.delete(namespace, triggerName, triggerRV); the history keeps the
\* value the key was last resolved to, if its TTL had not elapsed
Delete(namespace, triggerName, triggerRV) ==
  /\ last.op = "none"
  /\ LET nfr == DeleteKey(namespace, triggerName, triggerRV)
         key == Key(namespace, triggerName, triggerRV)
     IN /\ cache' = cacheDelete(cache, nfr)
        /\ hist' = [hist EXCEPT
                      ![key] = Hist("deleted", hist[key].value, 0, NoRef)]
        /\ last' = [NoCall EXCEPT !.op = "delete", !.nfr = key,
                                  !.prev = hist[key],
                                  !.cacheBefore = cache]
  /\ UNCHANGED <<store, calls, kvars>>

\* the caller takes the returned values; the next call can be made
Return ==
  /\ last.op # "none"
  /\ last' = NoCall
  /\ UNCHANGED <<store, cache, hist, calls, kvars>>

\* the watch feeding an informer adds, updates or removes a function
StoreChange(namespace, name, gen) ==
  /\ last.op = "none"
  /\ store[namespace][name] # gen
  /\ store' = [store EXCEPT ![namespace][name] = gen]
  /\ UNCHANGED <<cache, last, hist, calls, kvars>>

\* one tick of time passes: every entry that has not expired grows older
Tick ==
  /\ last.op = "none"
  /\ \E k \in DOMAIN cache : cache[k].present /\ ~IsExpired(cache[k])
  /\ cache' = [k \in DOMAIN cache |->
                 IF cache[k].present /\ ~IsExpired(cache[k])
                   THEN Entry(cache[k].value, cache[k].age + 1)
                   ELSE cache[k]]
  /\ hist' = [k \in DOMAIN hist |->
                IF hist[k].state # "ok" THEN hist[k]
                ELSE IF hist[k].age + 1 >= TTL THEN NoHist
                ELSE Hist("ok", hist[k].value, hist[k].age + 1, NoRef)]
  /\ UNCHANGED <<store, last, calls, kvars>>

\* the cache purges an entry whose time-to-live has elapsed
Expire(key) ==
  /\ last.op = "none"
  /\ IsExpired(cache[key])
  /\ cache' = [cache EXCEPT ![key] = NoEntry]
  /\ UNCHANGED <<store, last, hist, calls, kvars>>

Next ==
  \/ \E trigger \in HTTPTriggers :
       \E order \in Orders(DOMAIN trigger.ref.functionWeights) :
         Resolve(trigger, order)
  \/ \E key \in namespacedTriggerReference :
       Delete(key.namespace, key.triggerName, key.triggerResourceVersion)
  \/ Return
  \/ \E namespace \in InformerNamespaces, name \in ReferencedFns, gen \in 0..MaxGen :
       StoreChange(namespace, name, gen)
  \/ Tick
  \/ \E key \in namespacedTriggerReference : Expire(key)

Spec == Init /\ [][Next]_vars

(* ------------- the weighted distribution over wider weights ------------- *)

\* WSpec: the same resolver resolving, for the first time, one trigger whose
\* by-weights declaration ranges over all maps from up to three functions to
\* weights in -1..MaxWeight, while functions come and go; no time passes

WeightMaps ==
  UNION {[S -> (-1)..MaxWeight] : S \in SUBSET FnNames}

WTrigger(m) ==
  HTTPTrigger("default", "t1", "v1", ByWeights(m))

WInit ==
  /\ store \in [InformerNamespaces -> [FnNames -> 0..1]]
  /\ cache = [k \in namespacedTriggerReference |-> NoEntry]
  /\ last = NoCall
  /\ hist = [k \in namespacedTriggerReference |-> NoHist]
  /\ calls = NoCalls
  /\ MakeKubeWatcher

WNext ==
  \/ \E m \in WeightMaps : \E order \in Orders(DOMAIN m) :
       /\ ~cache[KeyOf(WTrigger(m))].present
       /\ Resolve(WTrigger(m), order)
  \/ Return
  \/ \E namespace \in InformerNamespaces, name \in FnNames, gen \in 0..1 :
       StoreChange(namespace, name, gen)

WSpec == WInit /\ [][WNext]_vars

(* ------------------------ snapshots of the cache ------------------------ *)

\* frr.copy()
Copy ==
  /\ last.op = "none"
  /\ last' = [NoCall EXCEPT !.op = "copy", !.cacheBefore = cache,
                            !.snapshot = cacheCopy(cache)]
  /\ UNCHANGED <<store, cache, hist, calls, kvars>>

\* SSpec: the resolver with keys that differ from each other in the
\* namespace, in the trigger name or in the version, and callers that
\* resolve, delete and take snapshots of the cache one after another
SKeys ==
  {Key("default", "t1", "v1"), Key("default", "t1", "v2"),
   Key("default", "t2", "v1"), Key("other", "t1", "v1")}

STriggers ==
  {HTTPTrigger(k.namespace, k.triggerName, k.triggerResourceVersion,
               IF k.namespace \in InformerNamespaces
                 THEN ByName("fA") ELSE ByWeights(EmptyWeights)) : k \in SKeys}

SInit ==
  /\ store \in [InformerNamespaces -> [FnNames -> 0..1]]
  /\ \A ns \in InformerNamespaces : \A f \in FnNames \ {"fA"} : store[ns][f] = 0
  /\ cache = [k \in SKeys |-> NoEntry]
  /\ last = NoCall
  /\ hist = [k \in SKeys |-> NoHist]
  /\ calls = NoCalls
  /\ MakeKubeWatcher

SNext ==
  \/ \E trigger \in STriggers : Resolve(trigger, <<>>)
  \/ \E key \in SKeys :
       Delete(key.namespace, key.triggerName, key.triggerResourceVersion)
  \/ Copy
  \/ Return
  \/ \E namespace \in InformerNamespaces, gen \in 0..1 :
       StoreChange(namespace, "fA", gen)
  \/ Tick
  \/ \E key \in SKeys : Expire(key)

SSpec == SInit /\ [][SNext]_vars

(* ------------------- callers that change what they got ------------------ *)

\* resolveResult.functionMap is a Go map, and the miss path of resolve hands
\* the same map to the cache ("refCache.Set(nfr, *rr)" copies the struct,
\* not the map behind its field) and to the caller ("return rr"). The
\* caller of a resolve that has just missed and succeeded removes the entry
\* of function f from the functionMap it got: the map of the cached value
\* is that map.
MutateReturned(f) ==
  /\ last.op = "resolve" /\ ~last.hit /\ last.err = NilErr
  /\ f \in DOMAIN last.res.functionMap
  /\ LET functionMap == last.res.functionMap
         mutated == [g \in DOMAIN functionMap \ {f} |-> functionMap[g]]
         nfr == last.nfr
     IN /\ last' = [last EXCEPT !.res.functionMap = mutated]
        /\ cache' = IF cache[nfr].present /\ cache[nfr].value = last.res
                      THEN [cache EXCEPT ![nfr].value.functionMap = mutated]
                      ELSE cache
  /\ UNCHANGED <<store, hist, calls, kvars>>

ANext ==
  \/ Next
  \/ \E f \in FnNames : MutateReturned(f)

\* ASpec: Spec with callers that change the results resolve returned them
ASpec == Init /\ [][ANext]_vars

(* ----------------------- concurrent resolve calls ----------------------- *)

\* NumCallers callers resolve the trigger default/t1/v1 at the same time.
\* resolve takes no lock: the cache lookup, each store lookup and the cache
\* set are steps of their own, between which the other callers, deletes and
\* store changes take theirs. A caller may stop taking steps at any point
\* (its resolution is abandoned). Here hist[k] is a CHist record.
\* CSpec: the trigger is declared by-name or by-weights, and no time passes.
\* TSpec: the trigger is declared by-name; time passes and entries expire.

CTriggers ==
  {HTTPTrigger("default", "t1", "v1", r) :
     r \in {ByName("fA"), ByWeights(Weights7030)}}

\* kept per key: the caller whose set wrote the entry (0: none), the
\* reference of the trigger it resolved, and the ticks since the first
\* lookup behind the value (TTL + 1: more than TTL)
CHist(writer, ref, built) == [writer |-> writer, ref |-> ref, built |-> built]
NoCHist == CHist(0, NoRef, 0)

CInit ==
  /\ store \in [InformerNamespaces -> [FnNames -> 0..1]]
  /\ \A ns \in InformerNamespaces : \A f \in FnNames \ ReferencedFns :
       store[ns][f] = 0
  /\ cache = [k \in namespacedTriggerReference |-> NoEntry]
  /\ last = NoCall
  /\ hist = [k \in namespacedTriggerReference |-> NoCHist]
  /\ calls = NoCalls
  /\ MakeKubeWatcher

\* the callers other than p whose call has missed and not reached its end
InProgress(p) ==
  {q \in Callers \ {p} : calls[q].pc \in {"byName", "byWeights", "set"}}

\* resolve, from its entry to the switch on the reference type: the key, the
\* cache lookup, the return on a hit, the dispatch on a miss
CResolve(p, trigger, order) ==
  /\ calls[p].pc = "idle"
  /\ LET nfr == KeyOf(trigger)
         got == cacheGet(cache, nfr)
         fr == trigger.ref
         call == [IdleCall EXCEPT !.nfr = nfr, !.ref = fr]
         missed(c) == [calls EXCEPT ![p] = [c EXCEPT !.with = InProgress(p)]]
     IN
     IF isCacheHit(got)
       THEN calls' = [calls EXCEPT
                        ![p] = [call EXCEPT !.pc = "done", !.rr = got.value,
                                            !.hit = TRUE,
                                            !.built = hist[nfr].built,
                                            !.age = cache[nfr].age]]
     ELSE IF fr.type = FunctionReferenceTypeFunctionName
       THEN calls' = missed([call EXCEPT !.pc = "byName"])
     ELSE IF fr.type = FunctionReferenceTypeFunctionWeights
       THEN calls' = missed([call EXCEPT
                               !.pc = IF loopEnded(order, 1) THEN "set"
                                      ELSE "byWeights",
                               !.order = order, !.i = 1,
                               !.rr = resolveResult(resolveResultMultipleFunctions,
                                                    <<>>, <<>>)])
     ELSE calls' = [calls EXCEPT
                      ![p] = [call EXCEPT !.pc = "done",
                                          !.err = ErrUnrecognizedType(fr.type)]]
  /\ UNCHANGED <<store, cache, last, hist, kvars>>

\* what the record keeps of a lookup of name in the store of namespace
Looked(namespace, name) ==
  [name |-> name, found |-> store[namespace][name] # 0]

\* resolveByName and the check of its error in resolve
CLookupByName(p) ==
  /\ calls[p].pc = "byName"
  /\ LET c == calls[p]
         r == resolveByName(store, c.nfr.namespace, c.ref.name)
         looked == IF r.lookups = 1
                     THEN <<Looked(c.nfr.namespace, c.ref.name)>> ELSE <<>>
     IN calls' = [calls EXCEPT
                    ![p] = IF r.err # NilErr
                             THEN [c EXCEPT !.pc = "done", !.err = r.err,
                                            !.rr = NilResult, !.looked = looked]
                             ELSE [c EXCEPT !.pc = "set", !.rr = r.rr,
                                            !.looked = looked]]
  /\ UNCHANGED <<store, cache, last, hist, kvars>>

\* iteration i of the range loop of resolveByFunctionWeights; after the
\* last one the result is built and resolve goes on to the set
CLoopIteration(p) ==
  /\ calls[p].pc = "byWeights"
  /\ LET c == calls[p]
         functionName == c.order[c.i]
         r == weightsLoop(store, c.nfr.namespace, c.ref.functionWeights,
                          <<functionName>>, 1, c.rr.functionMap,
                          c.rr.functionWtDistributionList, c.sumPrefix)
         looked == IF r.lookups = 1
                     THEN Append(c.looked, Looked(c.nfr.namespace, functionName))
                     ELSE c.looked
         list == r.rr.functionWtDistributionList
     IN calls' = [calls EXCEPT
                    ![p] = IF r.err # NilErr
                             THEN [c EXCEPT !.pc = "done", !.err = r.err,
                                            !.rr = NilResult, !.order = <<>>,
                                            !.i = 0, !.sumPrefix = 0,
                                            !.looked = looked, !.built = 0]
                           ELSE IF loopEnded(c.order, c.i + 1)
                             THEN [c EXCEPT !.pc = "set", !.rr = r.rr,
                                            !.i = 0, !.sumPrefix = 0,
                                            !.looked = looked]
                           ELSE [c EXCEPT !.rr = r.rr, !.i = c.i + 1,
                                          !.sumPrefix = list[Len(list)].sumPrefix,
                                          !.looked = looked]]
  /\ UNCHANGED <<store, cache, last, hist, kvars>>

\* frr.refCache.Set(nfr, *rr) and the return of rr
CSet(p) ==
  /\ calls[p].pc = "set"
  /\ LET c == calls[p] IN
     /\ cache' = cacheAfterMiss(cache, c.nfr, Returned(c.rr, NilErr, Len(c.looked)))
     /\ hist' = [hist EXCEPT ![c.nfr] = CHist(p, c.ref, c.built)]
     /\ calls' = [calls EXCEPT ![p] = [c EXCEPT !.pc = "done", !.didSet = TRUE]]
  /\ UNCHANGED <<store, last, kvars>>

\* the caller takes the returned values; it can make its next call
CReturn(p) ==
  /\ calls[p].pc = "done"
  /\ calls' = [q \in Callers |->
                 IF q = p THEN IdleCall
                 ELSE [calls[q] EXCEPT !.with = @ \ {p}]]
  /\ UNCHANGED <<store, cache, last, hist, kvars>>

\* frr.delete(namespace, triggerName, triggerRV), called while resolves run
CDelete(namespace, triggerName, triggerRV) ==
  /\ LET nfr == DeleteKey(namespace, triggerName, triggerRV) IN
     /\ cache' = cacheDelete(cache, nfr)
     /\ hist' = [hist EXCEPT ![nfr] = NoCHist]
  /\ UNCHANGED <<store, last, calls, kvars>>

\* a number of ticks, not counted beyond TTL + 1
Older(n) == IF n > TTL THEN TTL + 1 ELSE n + 1

\* one tick of time passes, for the entries and for the results under
\* construction behind which there is a lookup
CTick ==
  LET aged == [k \in DOMAIN cache |->
                 IF cache[k].present /\ ~IsExpired(cache[k])
                   THEN Entry(cache[k].value, cache[k].age + 1)
                   ELSE cache[k]]
      record == [k \in DOMAIN hist |->
                   IF cache[k].present
                     THEN [hist[k] EXCEPT !.built = Older(@)] ELSE hist[k]]
      inProgress == [p \in Callers |->
                       IF /\ calls[p].pc \in {"byWeights", "set"}
                          /\ calls[p].looked # <<>>
                         THEN [calls[p] EXCEPT !.built = Older(@)]
                         ELSE calls[p]]
  IN /\ <<aged, record, inProgress>> # <<cache, hist, calls>>
     /\ cache' = aged
     /\ hist' = record
     /\ calls' = inProgress
     /\ UNCHANGED <<store, last, kvars>>

\* the cache purges an entry whose time-to-live has elapsed
CExpire(key) ==
  /\ IsExpired(cache[key])
  /\ cache' = [cache EXCEPT ![key] = NoEntry]
  /\ hist' = [hist EXCEPT ![key] = NoCHist]
  /\ UNCHANGED <<store, last, calls, kvars>>

CNext ==
  \/ \E p \in Callers, trigger \in CTriggers :
       \E order \in Orders(DOMAIN trigger.ref.functionWeights) :
         CResolve(p, trigger, order)
  \/ \E p \in Callers : CLookupByName(p)
  \/ \E p \in Callers : CLoopIteration(p)
  \/ \E p \in Callers : CSet(p)
  \/ \E p \in Callers : CReturn(p)
  \/ CDelete("default", "t1", "v1")
  \/ \E namespace \in InformerNamespaces, name \in ReferencedFns, gen \in 0..1 :
       StoreChange(namespace, name, gen)

CSpec == CInit /\ [][CNext]_vars

TTriggers == {HTTPTrigger("default", "t1", "v1", ByName("fA"))}

\* two callers make calls in TSpec: one to set an entry, one to hit it
TCallers == {1, 2}

TInit == CInit /\ store["default"]["fB"] = 0

TNext ==
  \/ \E p \in TCallers, trigger \in TTriggers : CResolve(p, trigger, <<>>)
  \/ \E p \in TCallers : CLookupByName(p)
  \/ \E p \in TCallers : CSet(p)
  \/ \E p \in TCallers : CReturn(p)
  \/ CDelete("default", "t1", "v1")
  \/ \E namespace \in InformerNamespaces, gen \in 0..MaxGen :
       StoreChange(namespace, "fA", gen)
  \/ CTick
  \/ CExpire(Key("default", "t1", "v1"))

TSpec == TInit /\ [][TNext]_vars

(* ------------------------------ kubewatcher ---------------------------- *)

\* KSpec: the KubeWatcher of package kubewatcher. A controller adds and
\* removes the watches of the triggers, one call at a time; each
\* subscription runs its eventDispatchLoop in a goroutine of its own, whose
\* steps interleave with the controller's and with the watch channels.
\* The controller makes a subscription for a trigger only while no loop of an
\* earlier subscription of that trigger is running, and the API server times
\* a watch out or sends an Error event only while the subscription's watch
\* number is below MaxWatch. logger.Panic ends the process.

\* faulty variant: one more attempt is made
mayRetry_once_more(retriesLeft) == retriesLeft >= 0

\* "if retries > 0 { ...; continue } else { return err }"
mayRetry(retriesLeft) == retriesLeft > 0

\* the loop of restartWatch, when the next fails calls of
\* createKubernetesWatch return an error: the attempts made and whether a
\* watch was created
RECURSIVE restartLoop(_, _, _)
restartLoop(retriesLeft, fails, attempts) ==
  IF fails > 0
    THEN IF mayRetry(retriesLeft - 1)
           THEN restartLoop(retriesLeft - 1, fails - 1, attempts + 1)
           ELSE [created |-> FALSE, attempts |-> attempts + 1]
    ELSE [created |-> TRUE, attempts |-> attempts + 1]

\* ws.restartWatch(): the subscription after it, and what is kept of the call
restartWatch(ws, fails, cause, rvBefore) ==
  LET r == restartLoop(retries, fails, 0)
      rec == Restart(cause, rvBefore, ws.lastResourceVersion, r.attempts,
                     fails, ~r.created, ws.kubeWatch)
  IN IF r.created
       THEN [ws EXCEPT !.kubeWatch = ws.kubeWatch + 1, !.chan = "open",
                       !.restart = rec]
       ELSE [ws EXCEPT !.restart = rec]

\* the numbers of calls of createKubernetesWatch that fail in a row
FailRuns == {0, 1, retries - 1, retries, retries + 1}

\* faulty variant: the flag is not looked at
isStopped_never(ws) == FALSE

\* ws.isStopped()
isStopped(ws) == ws.stopped = 1

\* faulty variant: an Error event is handled like any other event
isErrorEvent_never(ev) == FALSE

\* "ev.Type == watch.Error"
isErrorEvent(ev) == ev.type = "ERROR"

\* faulty variant: the error of getResourceVersion is ignored
nextResourceVersion_unchecked(lastResourceVersion, ev) == ev.rv

\* getResourceVersion(ev.Object) and the update of ws.lastResourceVersion
nextResourceVersion(lastResourceVersion, ev) ==
  IF ev.readable THEN ev.rv ELSE lastResourceVersion

\* faulty variant: the entry stays in the map
deleteWatch_keeps(w, uid) == w

\* delete(kw.watches, w.UID)
deleteWatch(w, uid) == [w EXCEPT ![uid] = NoWatch]

\* no goroutine has panicked
Alive == \A uid \in UIDs : subs[uid].pc # "panicked"

Running(uid) ==
  subs[uid].pc \in {"top", "recv", "closed", "event", "restart"}

\* addWatch up to the return of MakeWatchSubscription: the subscription is
\* made, its watch started, and its loop launched
AddWatchMake(uid, refType, fails) ==
  /\ Alive /\ ctl.pc = "idle" /\ ~Running(uid)
  /\ LET ws == restartWatch([NoSub EXCEPT !.refType = refType], fails,
                            "make", "") IN
     IF ws.restart.err
       THEN /\ ctl' = Ctl("returned", "add", uid, NoWatch, "create", ws.restart)
            /\ UNCHANGED subs
       ELSE /\ subs' = [subs EXCEPT ![uid] = [ws EXCEPT !.pc = "top",
                                                        !.restart = NoRestart]]
            /\ ctl' = Ctl("storing", "add", uid, NoWatch, "", ws.restart)
  /\ UNCHANGED <<watches, rvars>>

\* "kw.watches[w.UID] = *ws; return nil"
AddWatchStore ==
  /\ Alive /\ ctl.pc = "storing"
  /\ watches' = [watches EXCEPT ![ctl.uid] = WatchCopy(subs[ctl.uid])]
  /\ ctl' = [ctl EXCEPT !.pc = "returned"]
  /\ UNCHANGED <<subs, rvars>>

\* removeWatch up to the store of the stopped flag in ws.stop()
RemoveWatchBegin(uid) ==
  /\ Alive /\ ctl.pc = "idle"
  /\ LET ws == watches[uid] IN
     IF ~ws.present
       THEN /\ ctl' = Ctl("returned", "remove", uid, NoWatch, "NotFound", NoRestart)
            /\ UNCHANGED <<watches, subs>>
       ELSE /\ watches' = deleteWatch(watches, uid)
            /\ subs' = [subs EXCEPT ![uid].stopped = 1]
            /\ ctl' = Ctl("stopping", "remove", uid, ws, "", NoRestart)
  /\ UNCHANGED rvars

\* "ws.kubeWatch.Stop()" on the copy taken from the map, and the return
RemoveWatchStop ==
  /\ Alive /\ ctl.pc = "stopping"
  /\ LET ws == subs[ctl.uid] IN
     subs' = [subs EXCEPT
                ![ctl.uid] = [ws EXCEPT
                                !.chan = IF ws.kubeWatch = ctl.ws.kubeWatch
                                           THEN "closed" ELSE ws.chan,
                                !.removed = TRUE]]
  /\ ctl' = [ctl EXCEPT !.pc = "returned"]
  /\ UNCHANGED <<watches, rvars>>

\* the controller takes what the call returned
CtlReturn ==
  /\ Alive /\ ctl.pc = "returned"
  /\ ctl' = IdleCtl
  /\ UNCHANGED <<watches, subs, rvars>>

\* "for !ws.isStopped()"
LoopTop(uid) ==
  /\ Alive /\ subs[uid].pc = "top"
  /\ LET ws == subs[uid] IN
     subs' = [subs EXCEPT
                ![uid] = [ws EXCEPT !.pc = IF isStopped(ws) THEN "exited" ELSE "recv",
                                    !.restart = NoRestart,
                                    !.published = NoEvent]]
  /\ UNCHANGED <<watches, ctl, rvars>>

\* "ev, more := <-ws.kubeWatch.ResultChan()"
LoopReceive(uid, ev) ==
  /\ Alive /\ subs[uid].pc = "recv"
  /\ isErrorEvent(ev) => subs[uid].kubeWatch < MaxWatch
  /\ LET ws == subs[uid] IN
     subs' = [subs EXCEPT
                ![uid] = IF ws.chan = "closed"
                           THEN [ws EXCEPT !.pc = "closed"]
                           ELSE [ws EXCEPT !.pc = "event", !.ev = ev,
                                           !.expected =
                                             IF ev.type = "ERROR" THEN ""
                                             ELSE IF ev.readable THEN ev.rv
                                             ELSE ws.expected]]
  /\ UNCHANGED <<watches, ctl, rvars>>

\* the API server closes a watch at its timeout
WatchTimeout(uid) ==
  /\ Alive /\ Running(uid)
  /\ subs[uid].chan = "open" /\ subs[uid].kubeWatch < MaxWatch
  /\ subs' = [subs EXCEPT ![uid].chan = "closed"]
  /\ UNCHANGED <<watches, ctl, rvars>>

\* "if !more { if ws.isStopped() { return } else { restartWatch ..."
LoopClosed(uid) ==
  /\ Alive /\ subs[uid].pc = "closed"
  /\ LET ws == subs[uid] IN
     subs' = [subs EXCEPT
                ![uid] = IF isStopped(ws)
                           THEN [ws EXCEPT !.pc = "exited"]
                           ELSE [ws EXCEPT !.pc = "restart",
                                           !.restart =
                                             Restart("timeout", ws.lastResourceVersion,
                                                     "", 0, 0, FALSE, 0)]]
  /\ UNCHANGED <<watches, ctl, rvars>>

\* the body of the loop on an event: the Error branch up to restartWatch, or
\* the update of lastResourceVersion and the publication
LoopEvent(uid) ==
  /\ Alive /\ subs[uid].pc = "event"
  /\ LET ws == subs[uid]
         ev == ws.ev
     IN subs' = [subs EXCEPT
                   ![uid] =
                     IF isErrorEvent(ev)
                       THEN [ws EXCEPT !.pc = "restart", !.ev = NoEvent,
                                       !.lastResourceVersion = "",
                                       !.restart =
                                         Restart("error", ws.lastResourceVersion,
                                                 "", 0, 0, FALSE, 0)]
                     ELSE IF ws.refType # FunctionReferenceTypeFunctionName
                       THEN [ws EXCEPT !.pc = "top", !.ev = NoEvent,
                                       !.lastResourceVersion =
                                         nextResourceVersion(ws.lastResourceVersion, ev)]
                     ELSE [ws EXCEPT !.pc = "top", !.ev = NoEvent,
                                     !.lastResourceVersion =
                                       nextResourceVersion(ws.lastResourceVersion, ev),
                                     !.published = ev,
                                     !.publishedAfterRemove =
                                       ws.publishedAfterRemove \/ ws.removed]]
  /\ UNCHANGED <<watches, ctl, rvars>>

\* "err := ws.restartWatch(ctx); if err != nil { Panic }; continue"
LoopRestart(uid, fails) ==
  /\ Alive /\ subs[uid].pc = "restart"
  /\ LET ws == restartWatch(subs[uid], fails, subs[uid].restart.cause,
                            subs[uid].restart.rvBefore)
     IN subs' = [subs EXCEPT
                   ![uid] = [ws EXCEPT !.pc = IF ws.restart.err THEN "panicked"
                                              ELSE "top"]]
  /\ UNCHANGED <<watches, ctl, rvars>>

KInit ==
  /\ MakeKubeWatcher
  /\ store = [ns \in InformerNamespaces |-> [f \in FnNames |-> 0]]
  /\ cache = [k \in namespacedTriggerReference |-> NoEntry]
  /\ last = NoCall
  /\ hist = [k \in namespacedTriggerReference |-> NoHist]
  /\ calls = NoCalls

\* the steps of the controller and of the loops, for the triggers U with
\* references of the types T, the events E and the runs of failures F
KStep(U, T, E, F) ==
  \/ \E uid \in U, refType \in T, fails \in F : AddWatchMake(uid, refType, fails)
  \/ AddWatchStore
  \/ \E uid \in U : RemoveWatchBegin(uid)
  \/ RemoveWatchStop
  \/ CtlReturn
  \/ \E uid \in U : LoopTop(uid)
  \/ \E uid \in U, ev \in E : LoopReceive(uid, ev)
  \/ \E uid \in U : WatchTimeout(uid)
  \/ \E uid \in U : LoopClosed(uid)
  \/ \E uid \in U : LoopEvent(uid)
  \/ \E uid \in U, fails \in F : LoopRestart(uid, fails)

\* KSpec: two triggers, whose watches deliver one kind of event and are
\* created at the first attempt
KNext ==
  KStep(UIDs, {FunctionReferenceTypeFunctionName},
        {WatchEvent("ADDED", "1", TRUE)}, {0})

KSpec == KInit /\ [][KNext]_vars

\* DSpec: one trigger, with every kind of event and of run of failures
DNext == KStep({"u1"}, FunctionReferenceTypes, WatchEvents, FailRuns)

DSpec == KInit /\ [][DNext]_vars

\* FSpec: DSpec where a loop that can take a step takes one, and a receive
\* returns: every watch channel delivers an event or is closed in the end
Fairness ==
  \A uid \in UIDs :
    /\ WF_vars(LoopTop(uid))
    /\ WF_vars(\E ev \in WatchEvents : LoopReceive(uid, ev))
    /\ WF_vars(LoopClosed(uid))
    /\ WF_vars(LoopEvent(uid))
    /\ WF_vars(\E fails \in FailRuns : LoopRestart(uid, fails))

FSpec == DSpec /\ Fairness

(* ------------------------------- claims --------------------------------- *)

\* the call that has just returned is a resolve / a resolve that missed
IsResolve == last.op = "resolve"
IsMiss == last.op = "resolve" /\ ~last.hit

\* the functions a reference names
ReferencedBy(ref) ==
  IF ref.type = FunctionReferenceTypeFunctionName THEN {ref.name}
  ELSE IF ref.type = FunctionReferenceTypeFunctionWeights
    THEN DOMAIN ref.functionWeights
  ELSE {}

\* the keys of the other versions of the trigger of key k
OtherVersions(k) ==
  {k1 \in namespacedTriggerReference :
     /\ k1 # k
     /\ k1.namespace = k.namespace
     /\ k1.triggerName = k.triggerName}

\* C1: a resolve of a key whose latest call was a successful resolve (no
\* delete since, TTL of the entry not elapsed) returns the same result
\* without error and without any lookup in the function store, whatever
\* the store holds by now and whatever the trigger declares by now.
C1_SecondResolveIsCacheHit ==
  (IsResolve /\ last.prev.state = "ok")
    => /\ last.err = NilErr
       /\ last.res = last.prev.value
       /\ last.lookups = 0

\* such a second resolve, returning a function that has left the store
C1_Witness ==
  /\ IsResolve /\ last.prev.state = "ok" /\ last.lookups = 0
  /\ \E f \in DOMAIN last.res.functionMap : store[last.nfr.namespace][f] = 0

RECURSIVE SumOfWeights(_, _)
SumOfWeights(fw, S) ==
  IF S = {} THEN 0
  ELSE LET f == CHOOSE x \in S : TRUE IN fw[f] + SumOfWeights(fw, S \ {f})

RECURSIVE SumOfFirst(_, _)
SumOfFirst(list, i) ==
  IF i = 0 THEN 0 ELSE list[i].weight + SumOfFirst(list, i - 1)

\* C2: a by-weights resolution with non-negative weights whose functions
\* are all in the store succeeds with a list of one entry per declared
\* function, carrying its declared weight; each sumPrefix is the sum of the
\* weights of the entries up to and including it, the last one is the sum of
\* all declared weights, and the sumPrefix values never decrease.
C2_PrefixSums ==
  (/\ IsMiss
   /\ last.ref.type = FunctionReferenceTypeFunctionWeights
   /\ \A f \in DOMAIN last.ref.functionWeights :
        /\ last.ref.functionWeights[f] >= 0
        /\ store[last.nfr.namespace][f] # 0)
    => LET fw == last.ref.functionWeights
           l == last.res.functionWtDistributionList
       IN /\ last.err = NilErr
          /\ Len(l) = Cardinality(DOMAIN fw)
          /\ {l[i].name : i \in 1..Len(l)} = DOMAIN fw
          /\ \A i \in 1..Len(l) :
               /\ l[i].weight = fw[l[i].name]
               /\ l[i].sumPrefix = SumOfFirst(l, i)
          /\ Len(l) > 0 => l[Len(l)].sumPrefix = SumOfWeights(fw, DOMAIN fw)
          /\ \A i \in 1..(Len(l) - 1) : l[i].sumPrefix <= l[i + 1].sumPrefix

\* a list of three entries with positive and zero weights
C2_Witness ==
  /\ IsMiss /\ last.err = NilErr
  /\ Len(last.res.functionWtDistributionList) = 3
  /\ \A f \in DOMAIN last.ref.functionWeights : last.ref.functionWeights[f] >= 0
  /\ \E f \in DOMAIN last.ref.functionWeights : last.ref.functionWeights[f] = 0
  /\ last.res.functionWtDistributionList[3].sumPrefix = 3

\* C3: the by-weights resolution of the declaration fA:70, fB:30 yields the
\* entries in the declared order, that is exactly
\* [(fA,70,70), (fB,30,100)].
C3_DeclaredOrder ==
  (IsMiss /\ last.err = NilErr /\ last.ref = ByWeights(Weights7030))
    => last.res.functionWtDistributionList =
         << functionWeightDistribution("fA", 70, 70),
            functionWeightDistribution("fB", 30, 100) >>

\* C4: a resolve that misses, of a by-name trigger whose function is not in
\* the store of its namespace, returns the does-not-exist error and no
\* result and leaves the cache as it was, with no live entry for the key;
\* and the same resolve made again after such a failure misses again and
\* looks the function up again.
C4_ByNameNotFoundIsNotCached ==
  /\ (/\ IsMiss
      /\ last.ref.type = FunctionReferenceTypeFunctionName
      /\ last.nfr.namespace \in InformerNamespaces
      /\ store[last.nfr.namespace][last.ref.name] = 0)
       => /\ last.err = ErrFunctionDoesNotExist(last.nfr.namespace, last.ref.name)
          /\ last.res = NilResult
          /\ cache = last.cacheBefore
          /\ ~cacheGet(cache, last.nfr).found
  /\ (/\ IsResolve
      /\ last.ref.type = FunctionReferenceTypeFunctionName
      /\ last.nfr.namespace \in InformerNamespaces
      /\ last.prev.state = "failed" /\ last.prev.ref = last.ref)
       => ~last.hit /\ last.lookups = 1

\* the same by-name resolve failing a second time in a row
C4_Witness ==
  /\ IsMiss
  /\ last.ref.type = FunctionReferenceTypeFunctionName
  /\ last.nfr.namespace \in InformerNamespaces
  /\ last.prev.state = "failed" /\ last.prev.ref = last.ref
  /\ last.err = ErrFunctionDoesNotExist(last.nfr.namespace, last.ref.name)
  /\ last.lookups = 1

\* C5: a resolve that misses, of a by-weights trigger of which a declared
\* function is not in the store of its namespace, returns the does-not-exist
\* error for such a function and no result, and leaves the cache as it was,
\* with no live entry for the key, however many functions it found first.
C5_ByWeightsNotFoundIsNotCached ==
  (/\ IsMiss
   /\ last.ref.type = FunctionReferenceTypeFunctionWeights
   /\ last.nfr.namespace \in InformerNamespaces
   /\ \E f \in DOMAIN last.ref.functionWeights : store[last.nfr.namespace][f] = 0)
    => /\ \E f \in DOMAIN last.ref.functionWeights :
            /\ store[last.nfr.namespace][f] = 0
            /\ last.err = ErrFunctionDoesNotExist(last.nfr.namespace, f)
       /\ last.res = NilResult
       /\ cache = last.cacheBefore
       /\ ~cacheGet(cache, last.nfr).found

\* the resolution fails on the second function, having found the first
C5_Witness ==
  /\ IsMiss
  /\ last.ref = ByWeights(Weights7030)
  /\ last.err = ErrFunctionDoesNotExist("default", "fB")
  /\ last.lookups = 2
  /\ ~cache[last.nfr].present

\* the result r was built from the store as it is now
ReflectsStore(r, err, ref, namespace) ==
  IF err = NilErr
    THEN /\ DOMAIN r.functionMap = ReferencedBy(ref)
         /\ \A f \in ReferencedBy(ref) :
              /\ store[namespace][f] # 0
              /\ r.functionMap[f] = Function(f, store[namespace][f])
    ELSE /\ r = NilResult
         /\ ReferencedBy(ref) # {}
              => \E f \in ReferencedBy(ref) : store[namespace][f] = 0

\* C6: the resolve that follows a delete of its key misses: it looks up
\* every function it comes to need (at least one, if the trigger names a
\* function) and what it returns is built from the store as it is now.
C6_ResolveAfterDeleteIsFresh ==
  (IsResolve /\ last.prev.state = "deleted")
    => /\ ~last.hit
       /\ ReferencedBy(last.ref) # {} /\ last.nfr.namespace \in InformerNamespaces
            => last.lookups >= 1
       /\ last.nfr.namespace \in InformerNamespaces
            => ReflectsStore(last.res, last.err, last.ref, last.nfr.namespace)

\* a resolve after the delete of a cached result, returning another result
C6_Witness ==
  /\ IsResolve /\ last.prev.state = "deleted"
  /\ last.prev.value # NilResult
  /\ last.err = NilErr
  /\ last.res # last.prev.value
  /\ last.lookups >= 1

\* C7: a delete of a key that has no entry in the cache returns no error
\* and leaves the cache as it was; an entry under another version token of
\* the trigger is still what a resolve of that version gets.
C7_DeleteOfAbsentKeyIsNoOp ==
  (last.op = "delete" /\ ~last.cacheBefore[last.nfr].present)
    => /\ last.err = NilErr
       /\ cache = last.cacheBefore
       /\ \A k1 \in OtherVersions(last.nfr) :
            hist[k1].state = "ok"
              => /\ cacheGet(cache, k1).found
                 /\ cacheGet(cache, k1).value = hist[k1].value

\* a delete with a version token other than the cached one
C7_Witness ==
  /\ last.op = "delete" /\ ~last.cacheBefore[last.nfr].present
  /\ \E k1 \in OtherVersions(last.nfr) :
       hist[k1].state = "ok" /\ cacheGet(cache, k1).found

\* C8: while version v1 of a trigger is resolved and its entry alive, a
\* resolve of another version v2 that has no live entry of its own misses:
\* it looks up the functions it names, what it returns is built from the
\* store as it is now, and the entry of v1 is left as it was.
C8_OtherVersionIsMiss ==
  (/\ IsResolve
   /\ last.prev.state # "ok"
   /\ \E k1 \in OtherVersions(last.nfr) : hist[k1].state = "ok")
    => /\ ~last.hit
       /\ ReferencedBy(last.ref) # {} => last.lookups >= 1
       /\ ReflectsStore(last.res, last.err, last.ref, last.nfr.namespace)
       /\ \A k1 \in OtherVersions(last.nfr) :
            /\ cache[k1] = last.cacheBefore[k1]
            /\ hist[k1].state = "ok"
                 => cacheGet(cache, k1).value = hist[k1].value

\* v2 resolved to a result other than the live entry of v1
C8_Witness ==
  /\ IsResolve /\ last.prev.state = "never" /\ last.err = NilErr
  /\ last.lookups >= 1
  /\ \E k1 \in OtherVersions(last.nfr) :
       /\ hist[k1].state = "ok"
       /\ cacheGet(cache, k1).found
       /\ cacheGet(cache, k1).value # last.res

\* C9: a resolve that misses, of a trigger whose reference type is neither
\* by-name nor by-weights, returns the unrecognized-type error naming that
\* type and no result, makes no lookup and leaves the cache as it was.
C9_UnrecognizedType ==
  (/\ IsMiss
   /\ last.ref.type # FunctionReferenceTypeFunctionName
   /\ last.ref.type # FunctionReferenceTypeFunctionWeights)
    => /\ last.err = ErrUnrecognizedType(last.ref.type)
       /\ last.res = NilResult
       /\ last.lookups = 0
       /\ cache = last.cacheBefore

\* such a resolve, on a key that something else is cached under
C9_Witness ==
  /\ IsMiss /\ last.ref = ByUrl
  /\ last.err = ErrUnrecognizedType("url")
  /\ \E k \in namespacedTriggerReference : cache[k].present

\* C10: a resolve that misses, of a by-name or by-weights trigger in a
\* namespace without informer, returns the informer-not-found error and no
\* result and caches nothing, whatever functions the trigger declares.
C10_NoInformerFails ==
  (/\ IsMiss
   /\ last.ref.type \in {FunctionReferenceTypeFunctionName,
                         FunctionReferenceTypeFunctionWeights}
   /\ last.nfr.namespace \notin InformerNamespaces)
    => /\ last.err = ErrInformerNotFound(last.nfr.namespace)
       /\ last.res = NilResult
       /\ cache = last.cacheBefore

\* the slot of the key of the call that has just returned, as the call found it
SlotBefore == last.cacheBefore[last.nfr]

\* C13: an entry counts its time-to-live from the set that wrote it, and a
\* resolve only hits an entry whose time-to-live has not elapsed; a resolve
\* of a key whose entry has outlived its time-to-live, purged or not, misses:
\* it looks the functions up again, what it returns is built from the store
\* as it is now, and on success the key gets a new entry with a new
\* time-to-live.
C13_ExpiredEntryIsMiss ==
  /\ (IsMiss /\ last.err = NilErr) => cache[last.nfr] = Entry(last.res, 0)
  /\ (IsResolve /\ last.hit)
       => SlotBefore.present /\ SlotBefore.age < TTL
  /\ (IsResolve /\ (~SlotBefore.present \/ SlotBefore.age >= TTL))
       => /\ ~last.hit
          /\ (/\ ReferencedBy(last.ref) # {}
              /\ last.nfr.namespace \in InformerNamespaces) => last.lookups >= 1
          /\ last.nfr.namespace \in InformerNamespaces
               => ReflectsStore(last.res, last.err, last.ref, last.nfr.namespace)
          /\ last.err = NilErr => cache[last.nfr] = Entry(last.res, 0)

\* a resolve that finds the expired entry still in the cache and replaces
\* it by another result
C13_Witness ==
  /\ IsResolve /\ SlotBefore.present /\ SlotBefore.age >= TTL
  /\ ~last.hit /\ last.err = NilErr /\ last.lookups >= 1
  /\ cache[last.nfr] = Entry(last.res, 0)
  /\ last.res # SlotBefore.value

\* C15: a by-name resolution that succeeds returns a single-function result
\* whose functionMap has exactly one entry, under the name the trigger
\* refers to, holding the object of that name in the store of the trigger's
\* namespace, and an empty distribution list; the cache holds that value
\* under the trigger's key.
C15_ByNameResult ==
  (/\ IsMiss /\ last.err = NilErr
   /\ last.ref.type = FunctionReferenceTypeFunctionName)
    => /\ last.res.resolveResultType = resolveResultSingleFunction
       /\ DOMAIN last.res.functionMap = {last.ref.name}
       /\ store[last.nfr.namespace][last.ref.name] # 0
       /\ last.res.functionMap[last.ref.name] =
            Function(last.ref.name, store[last.nfr.namespace][last.ref.name])
       /\ last.res.functionWtDistributionList = <<>>
       /\ cache[last.nfr] = Entry(last.res, 0)

\* a by-name resolution that succeeded and replaced an expired entry
C15_Witness ==
  /\ IsMiss /\ last.err = NilErr /\ last.ref = ByName("fA")
  /\ SlotBefore.present
  /\ cache[last.nfr].value.functionMap["fA"] = Function("fA", store["default"]["fA"])

\* the results to be seen: the one just returned and those in the cache
ResultsInSight ==
  {last.res} \cup {cache[k].value : k \in {k1 \in DOMAIN cache : cache[k1].present}}

NamesOf(list) == {list[i].name : i \in 1..Len(list)}

\* C16: in every result returned or cached whose distribution list is not
\* empty, the keys of functionMap are the names in the list, one map entry
\* per list entry; for the result just returned these are the functions the
\* trigger declares.
C16_MapKeysAreListNames ==
  /\ \A r \in ResultsInSight :
       Len(r.functionWtDistributionList) > 0
         => /\ DOMAIN r.functionMap = NamesOf(r.functionWtDistributionList)
            /\ Cardinality(DOMAIN r.functionMap) = Len(r.functionWtDistributionList)
  /\ (IsMiss /\ Len(last.res.functionWtDistributionList) > 0)
       => DOMAIN last.res.functionMap = DOMAIN last.ref.functionWeights

\* a result over three functions, returned and cached
C16_Witness ==
  /\ IsMiss /\ Len(last.res.functionWtDistributionList) = 3
  /\ cache[last.nfr].present
  /\ Cardinality(DOMAIN cache[last.nfr].value.functionMap) = 3

\* the sumPrefix of the entry before the i-th, 0 if it is the first
PrevSum(list, i) == IF i = 1 THEN 0 ELSE list[i - 1].sumPrefix

\* the scan of the distribution list that picks the first entry whose
\* sumPrefix is strictly greater than r (0: no such entry)
Select(list, r) ==
  IF \E i \in 1..Len(list) : list[i].sumPrefix > r
    THEN CHOOSE i \in 1..Len(list) :
           /\ list[i].sumPrefix > r
           /\ \A j \in 1..(i - 1) : list[j].sumPrefix <= r
    ELSE 0

\* a by-weights resolve that missed and found every declared function
AllDeclaredFound ==
  /\ IsMiss
  /\ last.ref.type = FunctionReferenceTypeFunctionWeights
  /\ last.nfr.namespace \in InformerNamespaces
  /\ \A f \in DOMAIN last.ref.functionWeights : store[last.nfr.namespace][f] # 0

\* C19: a by-weights resolution that declares a weight 0 and finds all its
\* functions succeeds; an entry of weight 0 has the sumPrefix of the entry
\* before it (0 if first), an entry of positive weight a strictly greater
\* one; and the scan for any r from 0 up to the total never picks an entry
\* of weight 0.
C19_ZeroWeight ==
  (/\ AllDeclaredFound
   /\ \E f \in DOMAIN last.ref.functionWeights : last.ref.functionWeights[f] = 0)
    => LET l == last.res.functionWtDistributionList IN
       /\ last.err = NilErr
       /\ NamesOf(l) = DOMAIN last.ref.functionWeights
       /\ \A i \in 1..Len(l) :
            /\ l[i].weight = 0 => l[i].sumPrefix = PrevSum(l, i)
            /\ l[i].weight > 0 => l[i].sumPrefix > PrevSum(l, i)
       /\ \A r \in 0..(l[Len(l)].sumPrefix - 1) :
            Select(l, r) # 0 => l[Select(l, r)].weight # 0

\* zero weights first and last around a positive one
C19_Witness ==
  /\ AllDeclaredFound /\ last.err = NilErr
  /\ LET l == last.res.functionWtDistributionList IN
     /\ Len(l) = 3
     /\ l[1].weight = 0 /\ l[2].weight = 2 /\ l[3].weight = 0
     /\ Select(l, 1) = 2

\* C20: a by-weights resolution that declares a negative weight and finds
\* all its functions succeeds; every entry carries the weight as declared,
\* an entry of negative weight has a sumPrefix below that of the entry
\* before it, and the result is cached under the key as returned.
C20_NegativeWeight ==
  (/\ AllDeclaredFound
   /\ \E f \in DOMAIN last.ref.functionWeights : last.ref.functionWeights[f] < 0)
    => LET l == last.res.functionWtDistributionList IN
       /\ last.err = NilErr
       /\ NamesOf(l) = DOMAIN last.ref.functionWeights
       /\ \A i \in 1..Len(l) :
            /\ l[i].weight = last.ref.functionWeights[l[i].name]
            /\ l[i].weight < 0 => l[i].sumPrefix < PrevSum(l, i)
       /\ cache[last.nfr] = Entry(last.res, 0)

\* a cached list whose sumPrefix goes up, down and up again
C20_Witness ==
  /\ AllDeclaredFound /\ last.err = NilErr
  /\ LET l == last.res.functionWtDistributionList IN
     /\ Len(l) = 3
     /\ l[1].sumPrefix = 2 /\ l[2].sumPrefix = 1 /\ l[3].sumPrefix = 3
  /\ cache[last.nfr].value = last.res

\* C12: whatever a caller does to the functionMap of a result resolve
\* returned it, the cache keeps the value that was resolved, and a later
\* resolve that hits returns the value the earlier resolve returned.
C12_ReturnedValuesAreIsolated ==
  /\ \A k \in DOMAIN cache :
       (hist[k].state = "ok" /\ cache[k].present)
         => cache[k].value = hist[k].value
  /\ (IsResolve /\ last.hit /\ last.prev.state = "ok")
       => last.res = last.prev.value

\* C21: a delete leaves no entry under the key made of its three arguments
\* and leaves the entry of every other key as it was, whether that key
\* differs in the namespace, in the trigger name or in the version; a
\* resolve that hits and a snapshot leave the whole cache as it was, and the
\* snapshot holds the live entries.
C21_DeleteTouchesOneKey ==
  /\ last.op = "delete"
       => /\ ~cache[last.nfr].present
          /\ \A k \in DOMAIN cache \ {last.nfr} : cache[k] = last.cacheBefore[k]
  /\ (IsResolve /\ last.hit) => cache = last.cacheBefore
  /\ last.op = "copy"
       => /\ cache = last.cacheBefore
          /\ \A k \in DOMAIN cache :
               IF cacheGet(cache, k).found
                 THEN k \in DOMAIN last.snapshot /\ last.snapshot[k] = cache[k].value
                 ELSE k \notin DOMAIN last.snapshot

\* a delete that removed an entry while the keys of the other namespace,
\* of the other trigger and of the other version keep theirs
C21_Witness ==
  /\ last.op = "delete"
  /\ last.cacheBefore[last.nfr].present /\ ~cache[last.nfr].present
  /\ \E k1, k2, k3 \in DOMAIN cache \ {last.nfr} :
       /\ k1.namespace # last.nfr.namespace /\ cache[k1].present
       /\ k2.triggerName # last.nfr.triggerName /\ cache[k2].present
       /\ k3.triggerResourceVersion # last.nfr.triggerResourceVersion
       /\ k3.namespace = last.nfr.namespace
       /\ k3.triggerName = last.nfr.triggerName /\ cache[k3].present

\* caller p's call has returned / has returned after a miss
Done(p) == calls[p].pc = "done"
DoneMiss(p) == calls[p].pc = "done" /\ ~calls[p].hit

\* the calls of p and q, of the same trigger, both missed and were in
\* progress at the same time
Overlapped(p, q) ==
  /\ p # q
  /\ calls[p].nfr = calls[q].nfr /\ calls[p].ref = calls[q].ref
  /\ q \in calls[p].with \/ p \in calls[q].with

LookedNames(p) == {calls[p].looked[i].name : i \in 1..Len(calls[p].looked)}

WeightPairs(r) ==
  {<<r.functionWtDistributionList[i].name, r.functionWtDistributionList[i].weight>> :
     i \in 1..Len(r.functionWtDistributionList)}

\* C11 (as stated): of calls for the same key that run concurrently and all
\* miss, each calls set, the results returned are all equal, and so is the
\* entry left in the cache.
C11_ConcurrentMissesAgree ==
  \A p, q \in Callers :
    (DoneMiss(p) /\ DoneMiss(q) /\ Overlapped(p, q))
      => /\ calls[p].didSet /\ calls[q].didSet
         /\ calls[p].rr = calls[q].rr
         /\ cache[calls[p].nfr].present
              => cache[calls[p].nfr].value = calls[p].rr

\* C11 (amended): a call that misses makes its own lookups, one per function
\* it refers to if they all succeed, and then calls set; one whose lookup
\* fails returns the error and sets nothing. The entry in the cache is the
\* one written by the last set: it is the result returned to the caller that
\* made it. The results of calls that overlapped agree in their type, in the
\* names of functionMap and in the (name, weight) pairs of the list, and
\* by-name results that found the same object are equal.
C11_NoCoalescing ==
  /\ \A p \in Callers :
       DoneMiss(p)
         => IF calls[p].err = NilErr
              THEN /\ calls[p].didSet
                   /\ LookedNames(p) = ReferencedBy(calls[p].ref)
                   /\ Len(calls[p].looked) = Cardinality(ReferencedBy(calls[p].ref))
              ELSE /\ ~calls[p].didSet
                   /\ calls[p].rr = NilResult
  /\ \A k \in DOMAIN cache : \A p \in Callers :
       (cache[k].present /\ hist[k].writer = p /\ Done(p) /\ calls[p].didSet)
         => cache[k].value = calls[p].rr
  /\ \A p, q \in Callers :
       (/\ DoneMiss(p) /\ DoneMiss(q) /\ Overlapped(p, q)
        /\ calls[p].err = NilErr /\ calls[q].err = NilErr)
         => /\ calls[p].rr.resolveResultType = calls[q].rr.resolveResultType
            /\ DOMAIN calls[p].rr.functionMap = DOMAIN calls[q].rr.functionMap
            /\ WeightPairs(calls[p].rr) = WeightPairs(calls[q].rr)
            /\ (/\ calls[p].ref.type = FunctionReferenceTypeFunctionName
                /\ calls[p].rr.functionMap = calls[q].rr.functionMap)
                 => calls[p].rr = calls[q].rr

\* two calls that overlapped have both set and returned, with results that
\* differ; the cache holds the one of the caller that set last
C11_Witness ==
  \E p, q \in Callers :
    /\ DoneMiss(p) /\ DoneMiss(q) /\ Overlapped(p, q)
    /\ calls[p].didSet /\ calls[q].didSet
    /\ calls[p].rr # calls[q].rr
    /\ hist[calls[q].nfr].writer = q
    /\ cache[calls[q].nfr].value = calls[q].rr

\* C14 (as stated): a result returned by resolve was built from lookups
\* made no more than TTL before the return.
C14_BuiltWithinTTL ==
  \A p \in Callers :
    (Done(p) /\ calls[p].err = NilErr) => calls[p].built <= TTL

\* C14 (amended): a result returned by resolve was built from a lookup made
\* by the returning call itself, or comes from an entry that was set less
\* than TTL before the return. (The lookups behind the entry are older than
\* the set by the time the call that made them took to reach it.)
C14_StalenessBoundedByTTL ==
  \A p \in Callers :
    (Done(p) /\ calls[p].err = NilErr)
      => IF calls[p].hit
           THEN /\ calls[p].age < TTL
                /\ calls[p].rr # NilResult
                /\ calls[p].looked = <<>>
           ELSE /\ LookedNames(p) = ReferencedBy(calls[p].ref)
                /\ \A f \in LookedNames(p) : f \in DOMAIN calls[p].rr.functionMap

\* a hit on an entry set less than TTL ago, whose lookup is more than TTL old
C14_Witness ==
  \E p \in Callers :
    /\ Done(p) /\ calls[p].hit /\ calls[p].age < TTL
    /\ calls[p].built > TTL

\* C17: whatever the callers, the deletes and the store do, and wherever a
\* resolution fails or is left unfinished, an entry in the cache holds a
\* whole result for the trigger it was set for: a functionMap entry for
\* every function the trigger refers to and, by-weights, one list entry for
\* each of them.
C17_EntriesAreFullyConstructed ==
  \A k \in DOMAIN cache :
    cache[k].present
      => LET ref == hist[k].ref
             r == cache[k].value
         IN /\ hist[k].writer \in Callers
            /\ DOMAIN r.functionMap = ReferencedBy(ref)
            /\ ref.type = FunctionReferenceTypeFunctionWeights
                 => /\ NamesOf(r.functionWtDistributionList) = DOMAIN ref.functionWeights
                    /\ Len(r.functionWtDistributionList) =
                         Cardinality(DOMAIN ref.functionWeights)

\* a whole by-weights entry, set by one caller while another is inside the
\* loop with one function found and the next one gone from the store
C17_Witness ==
  /\ cache[Key("default", "t1", "v1")].present
  /\ hist[Key("default", "t1", "v1")].ref = ByWeights(Weights7030)
  /\ \E p, q \in Callers :
       /\ calls[p].pc = "byWeights" /\ calls[p].i = 2
       /\ store["default"][calls[p].order[2]] = 0
       /\ Done(q) /\ calls[q].didSet

\* C18: a call that hit has made no lookup; a call looks up only functions
\* its trigger refers to, each at most once; and no lookup follows one that
\* did not find its function.
C18_LookupsAreBounded ==
  \A p \in Callers :
    LET looked == calls[p].looked IN
    /\ calls[p].hit => looked = <<>>
    /\ LookedNames(p) \subseteq ReferencedBy(calls[p].ref)
    /\ \A i, j \in 1..Len(looked) : i # j => looked[i].name # looked[j].name
    /\ \A i \in 1..(Len(looked) - 1) : looked[i].found

\* a by-weights call that returned after one lookup, which did not find its
\* function, while the other function it declares is in the store
C18_Witness ==
  \E p \in Callers :
    /\ Done(p) /\ calls[p].ref = ByWeights(Weights7030)
    /\ Len(calls[p].looked) = 1 /\ ~calls[p].looked[1].found
    /\ \E f \in DOMAIN Weights7030 \ LookedNames(p) : store["default"][f] # 0

\* the calls of restartWatch whose outcome is on record: the one of the
\* controller's addWatch, and the last one of each loop
RestartsDone ==
  {r \in {ctl.restart} \cup {subs[uid].restart : uid \in UIDs} : r.attempts > 0}

\* C22: restartWatch ends after at most 60 calls of createKubernetesWatch.
\* It returns nil at the first call that succeeds, with the new watch as
\* kubeWatch; it returns the error, with kubeWatch as it was, exactly when 60
\* calls in a row have failed.
C22_RestartWatchIsBounded ==
  /\ \A r \in RestartsDone :
       /\ r.attempts <= retries
       /\ r.err <=> r.fails >= retries
       /\ r.err => r.attempts = retries
       /\ ~r.err => r.attempts = r.fails + 1
  /\ \A uid \in UIDs :
       LET ws == subs[uid] IN
       ws.restart.attempts > 0 =>
         /\ ws.restart.err => ws.kubeWatch = ws.restart.watchBefore
         /\ ~ws.restart.err => ws.kubeWatch = ws.restart.watchBefore + 1
  /\ (ctl.pc = "returned" /\ ctl.op = "add" /\ ctl.restart.err) =>
       subs[ctl.uid].pc \in {"none", "exited"}
  /\ ctl.pc = "storing" => subs[ctl.uid].kubeWatch > ctl.restart.watchBefore

\* a loop whose restartWatch gave up after 60 failed calls, its watch the
\* one it had
C22_Witness ==
  \E uid \in UIDs :
    /\ subs[uid].pc = "panicked"
    /\ subs[uid].restart.err /\ subs[uid].restart.attempts = retries
    /\ subs[uid].kubeWatch = subs[uid].restart.watchBefore
    /\ subs[uid].kubeWatch > 0

\* the step in which the controller's removeWatch of uid looks the map up
RemoveWatchOf(uid) ==
  ctl.pc = "idle" /\ ctl'.op = "remove" /\ ctl'.uid = uid

\* C23: removeWatch of a UID that is not in the map returns NotFound and
\* changes neither the map nor a subscription; removeWatch of a UID that is
\* in the map deletes that entry and no other, sets the stopped flag of that
\* subscription and of no other, and returns nil, the entry staying out of
\* the map, so that a second removeWatch of the UID returns NotFound.
C23_RemoveWatch ==
  [][/\ \A uid \in UIDs :
          RemoveWatchOf(uid) =>
            IF ~watches[uid].present
              THEN /\ ctl'.pc = "returned" /\ ctl'.err = "NotFound"
                   /\ watches' = watches /\ subs' = subs
              ELSE /\ ctl'.pc = "stopping" /\ ctl'.err = ""
                   /\ ctl'.ws = watches[uid]
                   /\ ~watches'[uid].present
                   /\ subs'[uid] = [subs[uid] EXCEPT !.stopped = 1]
                   /\ \A other \in UIDs \ {uid} :
                        /\ watches'[other] = watches[other]
                        /\ subs'[other] = subs[other]
     /\ (ctl.pc = "stopping" /\ ctl' # ctl) =>
          /\ ctl'.pc = "returned" /\ ctl'.err = ""
          /\ watches' = watches /\ ~watches'[ctl.uid].present
          /\ subs'[ctl.uid].stopped = 1
          /\ \A other \in UIDs \ {ctl.uid} : subs'[other] = subs[other]
    ]_vars

\* a removeWatch that returned NotFound for a trigger removed before, the
\* watch of the other trigger being in the map
C23_Witness ==
  /\ ctl.pc = "returned" /\ ctl.op = "remove" /\ ctl.err = "NotFound"
  /\ subs[ctl.uid].removed /\ subs[ctl.uid].stopped = 1
  /\ \E other \in UIDs \ {ctl.uid} : watches[other].present

\* C24 as stated: once the stopped flag of a subscription is set, its loop
\* returns in the end.
C24_StoppedLoopReturns ==
  \A uid \in UIDs :
    (subs[uid].stopped = 1) ~> (subs[uid].pc = "exited")

\* C24, amended: once the stopped flag of a subscription is set, its loop
\* ends in the end: it returns, or it panics because its restartWatch has
\* failed 60 times in a row. A loop that has returned restarts no watch.
C24_StoppedLoopEnds ==
  /\ \A uid \in UIDs :
       (subs[uid].stopped = 1) ~> (subs[uid].pc \in {"exited", "panicked"})
  /\ [][\A uid \in UIDs :
          (subs[uid].pc = "exited" /\ subs'[uid].pc = "exited") =>
            subs'[uid].kubeWatch = subs[uid].kubeWatch]_vars

\* a loop that has returned after removeWatch, holding an open watch that a
\* restart installed while the trigger was being removed
C24_Witness ==
  \E uid \in UIDs :
    /\ subs[uid].pc = "exited" /\ subs[uid].removed
    /\ subs[uid].chan = "open" /\ subs[uid].kubeWatch > 1

\* C25: once removeWatch has returned for a trigger, the loop of its
\* subscription publishes no event.
C25_NoPublishAfterRemove ==
  \A uid \in UIDs : ~subs[uid].publishedAfterRemove

\* C26: a loop that holds an Error event publishes nothing for it, sets
\* lastResourceVersion to "" and calls restartWatch, which asks for the
\* watch with the empty resource version; a loop that finds its channel
\* closed while the subscription is not stopped calls restartWatch with
\* lastResourceVersion as it was, and that is the resource version asked for.
C26_ErrorAndTimeoutRestart ==
  [][\A uid \in UIDs :
       LET ws == subs[uid]
           ws2 == subs'[uid]
       IN /\ (ws.pc = "event" /\ ws.ev.type = "ERROR" /\ ws2.pc # "event") =>
               /\ ws2.pc = "restart" /\ ws2.restart.cause = "error"
               /\ ws2.published = NoEvent
               /\ ws2.publishedAfterRemove = ws.publishedAfterRemove
               /\ ws2.lastResourceVersion = ""
          /\ (ws.pc = "closed" /\ ws.stopped = 0 /\ ws2.pc # "closed") =>
               /\ ws2.pc = "restart" /\ ws2.restart.cause = "timeout"
               /\ ws2.lastResourceVersion = ws.lastResourceVersion
               /\ ws2.restart.rvBefore = ws.lastResourceVersion
          /\ (ws.pc = "restart" /\ ws2.pc # "restart") =>
               /\ ws2.restart.attempts > 0
               /\ ws2.lastResourceVersion = ws.lastResourceVersion
               /\ ws2.restart.rvUsed = ws.lastResourceVersion
               /\ ws.restart.cause = "error" => ws2.restart.rvUsed = ""
               /\ ws.restart.cause = "timeout" =>
                    ws2.restart.rvUsed = ws.restart.rvBefore
               /\ ~ws2.restart.err =>
                    /\ ws2.kubeWatch = ws.kubeWatch + 1
                    /\ ws2.chan = "open"
    ]_vars

\* a loop that has restarted its watch from the beginning after an Error
\* event, having held a resource version before it
C26_Witness ==
  \E uid \in UIDs :
    /\ subs[uid].pc = "top"
    /\ subs[uid].restart.cause = "error" /\ ~subs[uid].restart.err
    /\ subs[uid].restart.rvBefore # "" /\ subs[uid].restart.rvUsed = ""
    /\ subs[uid].lastResourceVersion = ""

\* C27: whenever the loop does not hold an event it has yet to process,
\* lastResourceVersion is the resource version of the last event received
\* whose version could be read, or "" when there was none or an Error event
\* has been received since; and that is the resource version a restartWatch
\* after a timeout asks for the new watch with.
C27_LastResourceVersion ==
  \A uid \in UIDs :
    LET ws == subs[uid] IN
    /\ ws.pc \notin {"none", "event"} => ws.lastResourceVersion = ws.expected
    /\ (ws.restart.cause = "timeout" /\ ws.restart.attempts > 0) =>
         ws.restart.rvUsed = ws.expected

\* a subscription on its third watch at least, the last one created after a
\* timeout with the resource version of an event received before it
C27_Witness ==
  \E uid \in UIDs :
    /\ subs[uid].restart.cause = "timeout" /\ ~subs[uid].restart.err
    /\ subs[uid].restart.attempts > 0
    /\ subs[uid].restart.rvUsed = "2" /\ subs[uid].expected = "2"
    /\ subs[uid].kubeWatch >= 3

====
